---- MODULE Spec2Model ----
(***************************************************************************)
(* A model of dataqualityreport/viz.py: the sparkline packager (sparkify), *)
(* the chart renderers it is handed (robust_hist, box_for_spark,           *)
(* missing_heatmap, donut, missing_bar) and the number humanizer           *)
(* (millify).                                                              *)
(*                                                                         *)
(* Representation.                                                         *)
(*  - A pandas Series is [dtype |-> "num" | "obj", vals |-> sequence];     *)
(*    an entry is <<>> (missing: NaN / None) or <<v>> (a value).           *)
(*  - A float is [nan, num, den] (a rational num/den, den > 0, or NaN);    *)
(*    every comparison with NaN is false, as in IEEE 754.                  *)
(*  - A Python str is a sequence of tokens (TLA+ strings).                 *)
(*  - An int of millify is a sign and a sequence of decimal digits, so     *)
(*    that 10^27 and beyond are within reach of the model checker.         *)
(***************************************************************************)
EXTENDS Integers, Sequences, FiniteSets, TLC

VARIABLES pc, call, chart, ret, figures

vars == <<pc, call, chart, ret, figures>>

(***************************************************************************)
(* Bounds of the model.                                                    *)
(***************************************************************************)
MaxSerLen == 3
MaxRefLen == 2
MaxBins == 2
MaxFigures == 1
MaxRows == 30
MaxRun == 2
MaxBarLen == 3
Grain == 2
MaxCaptionLen == 1
MaxPngBody == 2
MaxDigits == 28
MaxPrecision == 2

(***************************************************************************)
(* Generic helpers.                                                        *)
(***************************************************************************)
Min(a, b) == IF a <= b THEN a ELSE b

Max(a, b) == IF a >= b THEN a ELSE b

Range(s) == {s[i] : i \in 1..Len(s)}

RECURSIVE SeqsUpTo(_, _)
SeqsUpTo(S, n) ==
  IF n = 0 THEN {<<>>}
  ELSE LET shorter == SeqsUpTo(S, n - 1)
       IN shorter \cup {Append(s, x) : s \in {t \in shorter : Len(t) = n - 1}, x \in S}

RECURSIVE SumSeq(_)
SumSeq(s) == IF s = <<>> THEN 0 ELSE Head(s) + SumSeq(Tail(s))

SetMin(S) == CHOOSE x \in S : \A y \in S : x <= y

SetMax(S) == CHOOSE x \in S : \A y \in S : x >= y

(***************************************************************************)
(* Floats as rationals or NaN.                                             *)
(***************************************************************************)
Flt(n, d) == [nan |-> FALSE, num |-> n, den |-> d]

NaN == [nan |-> TRUE, num |-> 0, den |-> 1]

FEq(a, b) == ~a.nan /\ ~b.nan /\ a.num * b.den = b.num * a.den

FLt(a, b) == ~a.nan /\ ~b.nan /\ a.num * b.den < b.num * a.den

FSub(a, b) ==
  IF a.nan \/ b.nan THEN NaN ELSE Flt(a.num * b.den - b.num * a.den, a.den * b.den)

FAdd(a, b) ==
  IF a.nan \/ b.nan THEN NaN ELSE Flt(a.num * b.den + b.num * a.den, a.den * b.den)

\* a / b for b > 0.
FDiv(a, b) == IF a.nan \/ b.nan THEN NaN ELSE Flt(a.num * b.den, a.den * b.num)

Zero == Flt(0, 1)

One == Flt(1, 1)

(***************************************************************************)
(* pandas Series: dropna, category codes, to_numeric.                      *)
(***************************************************************************)
Missing == <<>>

Series(dtype, vals) == [dtype |-> dtype, vals |-> vals]

\* The lexical order of the text values (pandas sorts the categories).
Letters == <<"a", "b">>

LetterRank(x) == CHOOSE i \in 1..Len(Letters) : Letters[i] = x

dropna(ser) == Series(ser.dtype, SelectSeq(ser.vals, LAMBDA e : e # Missing))

is_object_dtype(ser) == ser.dtype = "obj"

\* ser.astype("category").cat.codes: the rank of the value among the sorted
\* distinct values present; a missing entry has the code -1 (and is then no
\* longer missing).
cat_codes(ser) ==
  LET present == {LetterRank(e[1]) : e \in {x \in Range(ser.vals) : x # Missing}}
      code(e) == IF e = Missing THEN -1
                 ELSE Cardinality({r \in present : r < LetterRank(e[1])})
  IN Series("num", [i \in 1..Len(ser.vals) |-> <<code(ser.vals[i])>>])

\* pd.to_numeric of a numeric series leaves its values as they are; an
\* object series of text would fail to parse.
to_numeric(ser) == ser

\* The plain values of a series without missing entries.
Values(ser) == [i \in 1..Len(ser.vals) |-> ser.vals[i][1]]

(***************************************************************************)
(* data_utils.drop_outliers_iqr (imported at line 25; its code is not in   *)
(* viz.py): keep the rows within [median - k*IQR, median + k*IQR], with    *)
(* pandas' linearly interpolated quantiles.  All quantities are kept times *)
(* four, which makes them integers.                                        *)
(***************************************************************************)
\* Four times the quantile a/4 of the sorted sequence xs (Len(xs) >= 1).
Quantile4(xs, a) ==
  LET pos4 == a * (Len(xs) - 1)
      i == (pos4 \div 4) + 1
      r == pos4 % 4
  IN IF r = 0 THEN 4 * xs[i] ELSE 4 * xs[i] + r * (xs[i + 1] - xs[i])

drop_outliers_iqr(xs, IQR_multiple) ==
  IF xs = <<>> THEN <<>>
  ELSE LET sorted == SortSeq(xs, LAMBDA a, b : a < b)
           IQR4 == Quantile4(sorted, 3) - Quantile4(sorted, 1)
           med4 == Quantile4(sorted, 2)
       IN SelectSeq(xs, LAMBDA v : /\ med4 - IQR_multiple * IQR4 <= 4 * v
                                   /\ 4 * v <= med4 + IQR_multiple * IQR4)

(***************************************************************************)
(* robust_hist.                                                            *)
(***************************************************************************)
NoRef == [dtype |-> "none", vals |-> <<>>]

\* Lines 87-90 (and 106-109): the primary column is cleaned in the order
\* dropna, category codes, to_numeric.
NormalizePrimary(ser) ==
  LET kept == dropna(ser)
  IN to_numeric(IF is_object_dtype(kept) THEN cat_codes(kept) ELSE kept)

\* Lines 94-96 (and 113-115): the reference column gets its category codes
\* first and dropna afterwards.
NormalizeReference(ref_ser) ==
  LET coded == IF is_object_dtype(ref_ser) THEN cat_codes(ref_ser) ELSE ref_ser
  IN to_numeric(dropna(coded))

\* Lines 91-96: the series the bin edges are scaled on.
ScaleSource(ser, ref_ser) ==
  IF ref_ser = NoRef THEN NormalizePrimary(ser) ELSE NormalizeReference(ref_ser)

nunique(xs) == Cardinality(Range(xs))

\* Line 99: the bins argument handed to np.histogram_bin_edges.
BinCountNoFloor(n_unique, bins) == Min(n_unique, bins)

BinCount(n_unique, bins) == Min(Max(n_unique, 1), bins)

\* np.histogram_bin_edges(a, bins=k) for an integer k >= 1: k + 1 equally
\* spaced edges over [min, max]; over [min - 0.5, max + 0.5] when min = max;
\* over [0, 1] when a is empty.  The edges are nums[j] / den.
histogram_bin_edges(a, k) ==
  LET lo2 == IF a = <<>> THEN 0
             ELSE IF SetMin(Range(a)) = SetMax(Range(a)) THEN 2 * SetMin(Range(a)) - 1
             ELSE 2 * SetMin(Range(a))
      hi2 == IF a = <<>> THEN 2
             ELSE IF SetMin(Range(a)) = SetMax(Range(a)) THEN 2 * SetMax(Range(a)) + 1
             ELSE 2 * SetMax(Range(a))
  IN [den |-> 2 * k, nums |-> [j \in 1..(k + 1) |-> k * lo2 + (j - 1) * (hi2 - lo2)]]

NumBins(edges) == Len(edges.nums) - 1

\* Whether the value v falls into bin j of the edges: bins are half open,
\* the last one is closed.
InBin(v, edges, j) ==
  /\ edges.nums[j] <= v * edges.den
  /\ \/ v * edges.den < edges.nums[j + 1]
     \/ j = NumBins(edges) /\ v * edges.den = edges.nums[j + 1]

\* A histogram that moves the values outside the edges to the extreme bins.
HistCountsClipped(xs, edges) ==
  LET clip(v) == IF v * edges.den < edges.nums[1] THEN 1
                 ELSE IF v * edges.den > edges.nums[NumBins(edges) + 1] THEN NumBins(edges)
                 ELSE CHOOSE j \in 1..NumBins(edges) : InBin(v, edges, j)
  IN [j \in 1..NumBins(edges) |-> Cardinality({i \in 1..Len(xs) : clip(xs[i]) = j})]

\* Line 100, ser.hist(bins=bins_np): numpy's histogram over explicit edges
\* counts a value in the bin that holds it and drops a value that lies
\* below the first or above the last edge.
HistCounts(xs, edges) ==
  [j \in 1..NumBins(edges) |-> Cardinality({i \in 1..Len(xs) : InBin(xs[i], edges, j)})]

\* density=True (the default): count / (total * bin width); 0/0 is NaN.
HistHeights(counts, edges) ==
  LET total == SumSeq(counts)
      width == edges.nums[2] - edges.nums[1]
  IN [j \in 1..Len(counts) |->
        IF total = 0 THEN NaN ELSE Flt(counts[j] * edges.den, total * width)]

Raised(what) == [raised |-> TRUE, kind |-> what]

robust_hist(ser, ref_ser, bins, IQR_multiple) ==
  LET data == Values(NormalizePrimary(ser))
      scale == Values(ScaleSource(ser, ref_ser))
      no_outliers == drop_outliers_iqr(scale, IQR_multiple)
      n_unique == nunique(no_outliers)
      k == BinCount(n_unique, bins)
  IN IF k < 1 THEN Raised("ValueError")
     ELSE LET bins_np == histogram_bin_edges(no_outliers, k)
              counts == HistCounts(data, bins_np)
          IN [raised |-> FALSE, kind |-> "hist", data |-> data, scale |-> scale,
              no_outliers |-> no_outliers, edges |-> bins_np, counts |-> counts,
              heights |-> HistHeights(counts, bins_np)]

(***************************************************************************)
(* box_for_spark.                                                          *)
(***************************************************************************)
box_for_spark(ser, ref_ser) ==
  LET data == Values(NormalizePrimary(ser))
      ref_ser_clean == IF ref_ser = NoRef THEN <<>> ELSE Values(NormalizeReference(ref_ser))
  IN [raised |-> FALSE, kind |-> "box", data |-> data, scale |-> ref_ser_clean,
      xlim |-> IF Len(ref_ser_clean) > 0
               THEN <<SetMin(Range(ref_ser_clean)), SetMax(Range(ref_ser_clean))>>
               ELSE <<>>]

(***************************************************************************)
(* Colours: a named colour, or a colormap (cm.Reds, cm.tab20c) at a level. *)
(***************************************************************************)
Named(name) == [name |-> name, at |-> Zero]

Reds(x) == [name |-> "Reds", at |-> x]

\* cm.tab20c.colors[3]
Tab20c3 == [name |-> "tab20c", at |-> Flt(3, 1)]

(***************************************************************************)
(* missing_heatmap.                                                        *)
(***************************************************************************)
\* The divisor of the chunk size, len(ser) / 15.
NumChunks == 15

\* A chunk size of len(ser) // 15 rows, at least one.
ChunkKeyWholeSize(i, L) == i \div Max(1, L \div NumChunks)

\* Line 122, np.floor(np.arange(len(ser)) / (len(ser) / 15)) at the row of
\* zero-based position i.  In IEEE doubles the quotient's floor equals
\* floor(15 * i / L) for every L the model reaches (and for every L below
\* 3000, by enumeration).
ChunkKey(i, L) == (NumChunks * i) \div L

\* x.sum() / len(x): the share of the entries that are 1.
CompletionOfOnes(x) ==
  Flt(SumSeq([i \in 1..Len(SelectSeq(x, LAMBDA e : e # Missing)) |->
                SelectSeq(x, LAMBDA e : e # Missing)[i][1]]), Len(x))

\* Line 123, x.count() * 1.0 / len(x): count() is the number of entries of
\* the chunk that are not missing.
Completion(x) == Flt(Len(SelectSeq(x, LAMBDA e : e # Missing)), Len(x))

\* Line 130: the colour of a chunk from val = 1 - completion.
HeatColor(val) ==
  IF FEq(val, Zero) THEN Named("white") ELSE Reds(FDiv(FAdd(val, Flt(1, 10)), Flt(11, 10)))

\* groupby sorts the distinct keys; every key is below L + 15.
GroupKeys(L) ==
  LET keyOf == [i \in 1..L |-> ChunkKey(i - 1, L)]
  IN SelectSeq([c \in 1..(L + NumChunks) |-> c - 1], LAMBDA c : c \in Range(keyOf))

\* The rows (one-based positions, in order) grouped under the key c.
GroupRows(L, c) == SelectSeq([i \in 1..L |-> i], LAMBDA i : ChunkKey(i - 1, L) = c)

\* Lines 126-131: one bar per chunk.
HeatBar(j, completion) ==
  [x |-> j - 1, width |-> 1, height |-> One, color |-> HeatColor(FSub(One, completion))]

HeatChunk(ser, j, key, rows) ==
  LET completion == Completion([r \in 1..Len(rows) |-> ser.vals[rows[r]]])
  IN [key |-> key, rows |-> rows, completion |-> completion, bar |-> HeatBar(j, completion)]

HeatChunks(ser, keys) ==
  [j \in 1..Len(keys) |-> HeatChunk(ser, j, keys[j], GroupRows(Len(ser.vals), keys[j]))]

\* Lines 122-132: chunks[j] is the j-th group with the value aggregated for
\* it (ser_chunk) and the bar drawn for it.
missing_heatmap(ser) ==
  [raised |-> FALSE, kind |-> "heatmap", chunks |-> HeatChunks(ser, GroupKeys(Len(ser.vals)))]

(***************************************************************************)
(* donut.                                                                  *)
(***************************************************************************)
\* label is <<>> (None) or <<text>>; the text drawn is `label or ""`.
NoLabel == <<>>

LabelText(label) == IF label = NoLabel THEN "" ELSE label[1]

\* A donut whose middle branch takes the closed interval.
donut_closed(perc, label, color, wedgewidth) ==
  LET plt_data == IF FEq(perc, One) THEN <<perc>>
                  ELSE IF ~FLt(perc, Zero) /\ ~FLt(One, perc) THEN <<perc, FSub(One, perc)>>
                  ELSE <<>>
      colors == IF FEq(perc, One) THEN <<Named(color)>>
                ELSE IF ~FLt(perc, Zero) /\ ~FLt(One, perc) THEN <<Named(color), Named("white")>>
                ELSE <<>>
  IN [raised |-> FALSE, kind |-> "pie", plt_data |-> plt_data, colors |-> colors,
      alpha |-> IF FLt(Zero, perc) THEN One ELSE Flt(1, 2), width |-> wedgewidth,
      text |-> IF plt_data = <<>> THEN <<>> ELSE <<LabelText(label)>>]

\* Lines 137-158.  plt_data and colors are the wedges handed to plt.pie,
\* alpha and width their wedgeprops; on the last branch the function returns
\* before anything is drawn (no wedge, no text).
donut(perc, label, color, wedgewidth) ==
  LET plt_data == IF FEq(perc, One) THEN <<perc>>
                  ELSE IF FEq(perc, Zero) THEN <<One>>
                  ELSE IF FLt(Zero, perc) /\ FLt(perc, One) THEN <<perc, FSub(One, perc)>>
                  ELSE <<>>
      colors == IF FEq(perc, One) THEN <<Named(color)>>
                ELSE IF FEq(perc, Zero) THEN <<Named("white")>>
                ELSE IF FLt(Zero, perc) /\ FLt(perc, One) THEN <<Named(color), Named("white")>>
                ELSE <<>>
  IN [raised |-> FALSE, kind |-> "pie", plt_data |-> plt_data, colors |-> colors,
      alpha |-> IF FLt(Zero, perc) THEN One ELSE Flt(1, 2), width |-> wedgewidth,
      text |-> IF plt_data = <<>> THEN <<>> ELSE <<LabelText(label)>>]

(***************************************************************************)
(* missing_bar.                                                            *)
(***************************************************************************)
\* Full red where the value is 0.
BarColorAtZero(val) == IF FEq(val, Zero) THEN Reds(Flt(7, 10)) ELSE Reds(Flt(1, 10))

\* Line 197.
BarColor(val) == IF FEq(val, One) THEN Reds(Flt(7, 10)) ELSE Reds(Flt(1, 10))

\* Lines 184-200: ser.values are floats here.
missing_bar(ser) ==
  [raised |-> FALSE, kind |-> "bar",
   background |-> [i \in 1..Len(ser.vals) |->
                     [x |-> i - 1, width |-> 1, height |-> FSub(One, ser.vals[i]),
                      bottom |-> Zero, alpha |-> Flt(1, 10), color |-> Tab20c3]],
   foreground |-> [i \in 1..Len(ser.vals) |->
                     [x |-> i - 1, width |-> 1, height |-> ser.vals[i],
                      bottom |-> FSub(One, ser.vals[i]), alpha |-> One,
                      color |-> BarColor(ser.vals[i])]]]

(***************************************************************************)
(* sparkify: the image string.                                             *)
(***************************************************************************)
B64Alphabet ==
  <<"A", "B", "C", "D", "E", "F", "G", "H", "I", "J", "K", "L", "M", "N", "O", "P",
    "Q", "R", "S", "T", "U", "V", "W", "X", "Y", "Z", "a", "b", "c", "d", "e", "f",
    "g", "h", "i", "j", "k", "l", "m", "n", "o", "p", "q", "r", "s", "t", "u", "v",
    "w", "x", "y", "z", "0", "1", "2", "3", "4", "5", "6", "7", "8", "9", "+", "/">>

\* base64.b64encode(...).decode(): one token per character.
RECURSIVE b64encode(_)
b64encode(b) ==
  IF Len(b) = 0 THEN <<>>
  ELSE IF Len(b) = 1
    THEN <<B64Alphabet[(b[1] \div 4) + 1], B64Alphabet[(b[1] % 4) * 16 + 1], "=", "=">>
  ELSE IF Len(b) = 2
    THEN <<B64Alphabet[(b[1] \div 4) + 1],
           B64Alphabet[(b[1] % 4) * 16 + (b[2] \div 16) + 1],
           B64Alphabet[(b[2] % 16) * 4 + 1], "=">>
  ELSE <<B64Alphabet[(b[1] \div 4) + 1],
         B64Alphabet[(b[1] % 4) * 16 + (b[2] \div 16) + 1],
         B64Alphabet[(b[2] % 16) * 4 + (b[3] \div 64) + 1],
         B64Alphabet[(b[3] % 64) + 1]>> \o b64encode(SubSeq(b, 4, Len(b)))

ImgOpen == "<img src=\"data:image/png;base64,"

ImgClose == "\"/>"

\* Line 71.
img_tag(png) == <<ImgOpen>> \o b64encode(png) \o <<ImgClose>>

\* caption is <<>> (None) or <<text>>, text a sequence of characters.
NoCaption == <<>>

\* A packager that drops the container and keeps the bare tag.
WrapNever(caption, img_str) == img_str

\* Lines 72-75.
Wrap(caption, img_str) ==
  IF caption = NoCaption THEN img_str
  ELSE <<"<div title='">> \o caption[1] \o <<"'>">> \o img_str \o <<"</div>">>

\* Line 68, plt.savefig into the buffer: a PNG stream starts with the PNG
\* signature; what follows depends on the pixels and is left open.
PngSignature == <<137, 80, 78, 71, 13, 10, 26, 10>>

(***************************************************************************)
(* millify.  n is [neg, digits], digits its decimal digits without leading *)
(* zeros.                                                                  *)
(***************************************************************************)
millnames == <<"", "k", "M", "B", "T", "P", "E", "Z", "Y">>

DigitChar == <<"0", "1", "2", "3", "4", "5", "6", "7", "8", "9">>

Zeros(k) == [i \in 1..k |-> 0]

Nines(k) == [i \in 1..k |-> 9]

IsZero(n) == n.digits = <<0>>

\* The decimal digits a double keeps (sys.float_info.dig).
DoubleDigits == 15

\* Whether math.log10(abs(float(n))) comes out as the whole number
\* Len(digits): when the leading 15 digits are all 9, n is within a relative
\* 1e-15 below 10^Len(digits) and the logarithm (and above 2^53 already
\* float(n)) rounds up to the power of ten.  Exact for the integers of
\* MillifyInputs.
Log10RoundsUp(digits) ==
  /\ Len(digits) >= DoubleDigits
  /\ \A i \in 1..DoubleDigits : digits[i] = 9

\* Line 217, int(math.floor(math.log10(abs(n)) / 3)) as the doubles give it.
Log10Floor3(digits) ==
  IF Log10RoundsUp(digits) THEN Len(digits) \div 3 ELSE (Len(digits) - 1) \div 3

\* Line 217.
millidx_of(n) ==
  Max(0, Min(Len(millnames) - 1, IF IsZero(n) THEN 0 ELSE Log10Floor3(n.digits)))

\* digits + 1 as a digit sequence.
RECURSIVE Increment(_)
Increment(d) ==
  IF d = <<>> THEN <<1>>
  ELSE IF d[Len(d)] < 9 THEN [d EXCEPT ![Len(d)] = @ + 1]
  ELSE Append(Increment(SubSeq(d, 1, Len(d) - 1)), 0)

RECURSIVE DigitsValue(_)
DigitsValue(d) == IF d = <<>> THEN 0 ELSE 10 * DigitsValue(SubSeq(d, 1, Len(d) - 1)) + d[Len(d)]

RECURSIVE Pow(_, _)
Pow(b, e) == IF e = 0 THEN 1 ELSE b * Pow(b, e - 1)

\* Line 218, "{:.{precision}f}".format(n / 10 ** (3 * millidx)): the digits
\* of |n| / 1000^idx rounded to `precision` decimals.  The quotient is a
\* double: a decimal tie that is a double itself (and comes from exact
\* operands) rounds half to even; any other decimal tie rounds the way the
\* nearest double lies, which tieUp stands for.
FormatQuotient(n, idx, precision, tieUp) ==
  LET shift == 3 * idx
      L == Len(n.digits)
      whole == IF L > shift THEN SubSeq(n.digits, 1, L - shift) ELSE <<0>>
      fracAll == IF L > shift THEN SubSeq(n.digits, L - shift + 1, L)
                 ELSE Zeros(shift - L) \o n.digits
      padded == fracAll \o Zeros(precision + 1)
      kept == SubSeq(padded, 1, precision)
      next == padded[precision + 1]
      rest == SubSeq(padded, precision + 2, Len(padded))
      restZero == \A i \in 1..Len(rest) : rest[i] = 0
      isTie == next = 5 /\ restZero
      last == IF precision > 0 THEN kept[precision] ELSE whole[Len(whole)]
      isDouble == /\ L <= DoubleDigits
                  /\ (DigitsValue(Append(kept, 5)) * Pow(2, precision + 1))
                       % Pow(10, precision + 1) = 0
      up == IF isTie THEN (IF isDouble THEN last % 2 = 1 ELSE tieUp) ELSE next >= 5
      rounded == IF up THEN Increment(whole \o kept) ELSE whole \o kept
      chars == [i \in 1..Len(rounded) |-> DigitChar[rounded[i] + 1]]
      wholeLen == Len(rounded) - precision
  IN (IF n.neg THEN <<"-">> ELSE <<>>)
       \o SubSeq(chars, 1, wholeLen)
       \o (IF precision > 0 THEN <<".">> \o SubSeq(chars, wholeLen + 1, Len(chars)) ELSE <<>>)

Suffix(idx) == IF millnames[idx + 1] = "" THEN <<>> ELSE <<millnames[idx + 1]>>

\* Lines 215-219.
millify(n, precision, tieUp) ==
  [raised |-> FALSE, millidx |-> millidx_of(n),
   value |-> FormatQuotient(n, millidx_of(n), precision, tieUp) \o Suffix(millidx_of(n))]

(***************************************************************************)
(* The inputs the calls are made with.                                     *)
(***************************************************************************)
NumEntries == {Missing, <<0>>, <<1>>, <<9>>}

ObjEntries == {Missing} \cup {<<Letters[i]>> : i \in 1..Len(Letters)}

SeriesUpTo(n) ==
  {Series("num", v) : v \in SeqsUpTo(NumEntries, n)}
    \cup {Series("obj", v) : v \in SeqsUpTo(ObjEntries, n)}

\* A reference column is of the same kind as the primary one.
References(ser) == {NoRef} \cup {r \in SeriesUpTo(MaxRefLen) : r.dtype = ser.dtype}

\* IQR_multiple: the default 3 (line 82) and a tighter 1.
IQRMultiples == {1, 3}

\* A column of L rows, all 1 but for a run of missing rows from `from` of
\* width w and one 0 at row z (z = 0: none).
PresenceColumn(L, from, w, z) ==
  Series("num", [i \in 1..L |-> IF from <= i /\ i < from + w THEN Missing
                                 ELSE IF i = z THEN <<0>> ELSE <<1>>])

\* A series of floats k / Grain within [0, 1].
FractionSeries == {Series("num", v) : v \in SeqsUpTo({Flt(k, Grain) : k \in 0..Grain}, MaxBarLen)}

Percs == {NaN} \cup {Flt(k, Grain) : k \in (0 - 1)..(Grain + 1)}

Captions == {NoCaption} \cup {<<c>> : c \in SeqsUpTo({"a", "'"}, MaxCaptionLen)}

PngImages == {PngSignature \o body : body \in SeqsUpTo({0, 255}, MaxPngBody)}

Mantissas == {<<1>>, <<2>>, <<1, 5>>, <<2, 5>>, <<1, 1, 5>>, <<1, 2, 5>>, <<9, 9, 9>>, <<9, 9, 9, 5>>}

MillifyInputs ==
  {[neg |-> FALSE, digits |-> <<0>>]}
    \cup {[neg |-> s, digits |-> m \o Zeros(e)] :
            s \in BOOLEAN, m \in Mantissas, e \in 0..(MaxDigits - 4)}
    \cup {[neg |-> s, digits |-> Nines(k)] : s \in BOOLEAN, k \in 1..MaxDigits}

(***************************************************************************)
(* State.                                                                  *)
(*   pc       "idle" between calls, "done" when a call has ended           *)
(*   call     the call made: the function and its arguments                *)
(*   chart    what the renderer drew into the current axes, and the ylim   *)
(*   ret      how the call ended: the value returned, or the exception     *)
(*   figures  the number of figures pyplot holds open                      *)
(***************************************************************************)
NoCall == [fn |-> "none"]

NoMarks == [raised |-> FALSE, kind |-> "none"]

NoChart == [marks |-> NoMarks, ylim |-> <<>>]

NoRet == [raised |-> FALSE, value |-> <<>>]

Init ==
  /\ pc = "idle"
  /\ call = NoCall
  /\ chart = NoChart
  /\ ret = NoRet
  /\ figures = 0

\* A call is made when the caller is not inside one; the figures left open
\* are capped by MaxFigures.
CanCall == pc = "idle" /\ figures < MaxFigures

\* Lines 55-75, with the renderer's outcome `rendered` (line 59).  plt.figure
\* registers a new figure with pyplot; plt.close(fig) at line 70 is reached
\* only when every statement before it has returned.
sparkify(rendered, ylim, caption, png) ==
  /\ pc' = "done"
  /\ IF rendered.raised
       THEN /\ figures' = figures + 1
            /\ chart' = [marks |-> rendered, ylim |-> <<>>]
            /\ ret' = [raised |-> TRUE, value |-> <<>>]
       ELSE /\ figures' = (figures + 1) - 1
            /\ chart' = [marks |-> rendered, ylim |-> ylim]
            /\ ret' = [raised |-> FALSE, value |-> Wrap(caption, img_tag(png))]

\* Lines 166-168.
spark_hist ==
  /\ CanCall
  /\ \E ser \in SeriesUpTo(MaxSerLen), bins \in 0..MaxBins, k \in IQRMultiples :
      \E ref_ser \in References(ser) :
        /\ call' = [fn |-> "spark_hist", ser |-> ser, ref_ser |-> ref_ser, bins |-> bins,
                    IQR_multiple |-> k, caption |-> NoCaption]
        /\ sparkify(robust_hist(ser, ref_ser, bins, k), <<>>, NoCaption, PngSignature)

\* Lines 171-173.
spark_box ==
  /\ CanCall
  /\ \E ser \in SeriesUpTo(MaxSerLen) :
      \E ref_ser \in References(ser) :
        /\ call' = [fn |-> "spark_box", ser |-> ser, ref_ser |-> ref_ser, caption |-> NoCaption]
        /\ sparkify(box_for_spark(ser, ref_ser), <<>>, NoCaption, PngSignature)

\* Lines 208-210.
spark_missing_heatmap ==
  /\ CanCall
  /\ \E L \in 1..MaxRows, w \in 0..MaxRun :
      \E from \in 1..L, z \in 0..L :
        /\ call' = [fn |-> "spark_missing_heatmap", ser |-> PresenceColumn(L, from, w, z),
                    caption |-> NoCaption]
        /\ sparkify(missing_heatmap(PresenceColumn(L, from, w, z)), <<0, 1>>, NoCaption,
                    PngSignature)

\* Lines 203-205.
spark_missing_bar ==
  /\ CanCall
  /\ \E ser \in FractionSeries, caption \in Captions :
      /\ call' = [fn |-> "spark_missing_bar", ser |-> ser, caption |-> caption]
      /\ sparkify(missing_bar(ser), <<0, 1>>, caption, PngSignature)

\* Lines 161-163.
spark_donut ==
  /\ CanCall
  /\ \E perc \in Percs, label \in {NoLabel, <<"7%">>}, color \in {"blue", "red"},
       caption \in Captions, png \in PngImages :
      /\ call' = [fn |-> "spark_donut", perc |-> perc, label |-> label, color |-> color,
                  caption |-> caption]
      /\ sparkify(donut(perc, label, color, One), <<>>, caption, png)

\* sparkify called with a renderer of the caller's: one that draws and
\* returns, or one that raises.
sparkify_direct ==
  /\ CanCall
  /\ \E plt_func \in {[raised |-> FALSE, kind |-> "user"], Raised("Exception")},
       ylim \in {<<>>, <<0, 1>>}, caption \in Captions, png \in PngImages :
      /\ call' = [fn |-> "sparkify", caption |-> caption]
      /\ sparkify(plt_func, ylim, caption, png)

\* millify draws nothing and opens no figure.
millify_call ==
  /\ pc = "idle"
  /\ \E n \in MillifyInputs, precision \in 0..MaxPrecision, tieUp \in BOOLEAN :
    /\ pc' = "done"
    /\ call' = [fn |-> "millify", n |-> n, precision |-> precision]
    /\ ret' = millify(n, precision, tieUp)
    /\ UNCHANGED <<chart, figures>>

\* The caller takes the result (or handles the exception) and goes on.
Return ==
  /\ pc = "done"
  /\ pc' = "idle"
  /\ call' = NoCall
  /\ chart' = NoChart
  /\ ret' = NoRet
  /\ UNCHANGED figures

NextHist == spark_hist \/ spark_box \/ Return

NextMissing == spark_missing_heatmap \/ spark_missing_bar \/ Return

NextSpark == spark_donut \/ sparkify_direct \/ Return

NextMillify == millify_call \/ Return

Next ==
  \/ spark_hist
  \/ spark_box
  \/ spark_missing_heatmap
  \/ spark_missing_bar
  \/ spark_donut
  \/ sparkify_direct
  \/ millify_call
  \/ Return

SpecHist == Init /\ [][NextHist]_vars

SpecMissing == Init /\ [][NextMissing]_vars

SpecSpark == Init /\ [][NextSpark]_vars

SpecMillify == Init /\ [][NextMillify]_vars

Spec == Init /\ [][Next]_vars

(***************************************************************************)
(* The claims.                                                             *)
(***************************************************************************)
Ended(fn) == pc = "done" /\ call.fn = fn

Drawn(fn) == Ended(fn) /\ ~ret.raised

NonMissing(vals) == SelectSeq(vals, LAMBDA e : e # Missing)

\* C1: in robust_hist, for a requested bin count bins >= 1, no exception is
\* raised and the number of bins whose edges are computed is
\* min(max(n_unique, 1), bins), n_unique being the number of distinct values
\* of the scale source (the reference series if given, else the primary
\* series) after the outlier filter; a constant or empty scale source uses
\* exactly one bin.
C1_BinCountPolicy ==
  (Ended("spark_hist") /\ call.bins >= 1) =>
    LET m == chart.marks
        n_unique == Cardinality(Range(m.no_outliers))
    IN /\ ~ret.raised
       /\ m.scale = IF call.ref_ser = NoRef THEN m.data
                    ELSE Values(NormalizeReference(call.ref_ser))
       /\ m.no_outliers = drop_outliers_iqr(m.scale, call.IQR_multiple)
       /\ NumBins(m.edges) = Min(Max(n_unique, 1), call.bins)
       /\ n_unique <= 1 => NumBins(m.edges) = 1

\* C1 witness: an empty scale source, two bins asked for, one bin used.
C1_Witness ==
  /\ Drawn("spark_hist")
  /\ call.bins >= 2
  /\ chart.marks.no_outliers = <<>>
  /\ NumBins(chart.marks.edges) = 1

\* C2: donut(perc) draws one wedge of weight 1 in the given colour when
\* perc == 1.0, one white wedge of weight 1 at half opacity when perc == 0.0,
\* the two wedges [perc, 1 - perc] in [color, white] (summing to 1) when
\* 0 < perc < 1, and for any other value (perc < 0, perc > 1, NaN) no wedge,
\* without an error.
C2_DonutWedges ==
  Ended("spark_donut") =>
    LET p == call.perc
        m == chart.marks
    IN /\ ~ret.raised
       /\ FEq(p, One) =>
            /\ Len(m.plt_data) = 1 /\ FEq(m.plt_data[1], One)
            /\ m.colors = <<Named(call.color)>>
       /\ FEq(p, Zero) =>
            /\ Len(m.plt_data) = 1 /\ FEq(m.plt_data[1], One)
            /\ m.colors = <<Named("white")>>
            /\ FEq(m.alpha, Flt(1, 2))
       /\ (FLt(Zero, p) /\ FLt(p, One)) =>
            /\ Len(m.plt_data) = 2
            /\ FEq(m.plt_data[1], p) /\ FEq(m.plt_data[2], FSub(One, p))
            /\ FEq(FAdd(m.plt_data[1], m.plt_data[2]), One)
            /\ m.colors = <<Named(call.color), Named("white")>>
       /\ ~(FEq(p, One) \/ FEq(p, Zero) \/ (FLt(Zero, p) /\ FLt(p, One))) =>
            m.plt_data = <<>> /\ m.colors = <<>>

\* C2 witness: donut(NaN) has returned a string and drawn no wedge.
C2_Witness == Drawn("spark_donut") /\ call.perc.nan /\ chart.marks.plt_data = <<>>

\* C3: after any sequence of sparkify calls, each of which returned a string
\* or ended because the renderer raised, no figure created by sparkify is
\* left open.
C3_NoFigureLeftOpen == figures = 0

\* C4: missing_heatmap partitions the L rows by position into contiguous
\* chunks, every row in exactly one chunk, at most 15 chunks; a positive
\* multiple of 15 gives exactly 15 chunks of L / 15 rows; 1 <= L < 15 gives
\* at least one chunk without an error; there is one bar per chunk.
C4_HeatmapChunking ==
  Ended("spark_missing_heatmap") =>
    LET L == Len(call.ser.vals)
        ch == chart.marks.chunks
    IN /\ ~ret.raised
       /\ Len(ch) >= 1 /\ Len(ch) <= 15
       /\ \A i \in 1..L : Cardinality({j \in 1..Len(ch) : i \in Range(ch[j].rows)}) = 1
       /\ \A j \in 1..Len(ch) :
            /\ Len(ch[j].rows) >= 1
            /\ \A r \in 1..Len(ch[j].rows) : ch[j].rows[r] = ch[j].rows[1] + (r - 1)
            /\ ch[j].rows[1] = IF j = 1 THEN 1
                               ELSE ch[j - 1].rows[Len(ch[j - 1].rows)] + 1
            /\ ch[j].bar.x = j - 1
       /\ L % 15 = 0 => /\ Len(ch) = 15
                        /\ \A j \in 1..Len(ch) : Len(ch[j].rows) = L \div 15

\* C4 witness: seven rows, chunked without error into at least one chunk.
C4_Witness ==
  /\ Drawn("spark_missing_heatmap")
  /\ Len(call.ser.vals) = 7
  /\ Len(chart.marks.chunks) >= 1

\* C5 (as amended): the completion of a chunk is the number of its entries
\* that are not missing (a 0 counts like a 1) divided by the number of its
\* rows; the chunk is white exactly when the completion is 1, that is when
\* none of its entries is missing, and a red of the ramp otherwise.
C5_CompletionCountsNonMissing ==
  Ended("spark_missing_heatmap") =>
    \A j \in 1..Len(chart.marks.chunks) :
      LET c == chart.marks.chunks[j]
          entries == [r \in 1..Len(c.rows) |-> call.ser.vals[c.rows[r]]]
      IN /\ FEq(c.completion, Flt(Len(NonMissing(entries)), Len(c.rows)))
         /\ c.bar.color = Named("white") <=> FEq(c.completion, One)
         /\ c.bar.color = Named("white") <=> Missing \notin Range(entries)
         /\ Missing \in Range(entries) => c.bar.color.name = "Reds"

\* C5 witness: a chunk that holds a 0 and no missing entry is drawn white.
C5_Witness ==
  /\ Drawn("spark_missing_heatmap")
  /\ \E j \in 1..Len(chart.marks.chunks) :
       LET c == chart.marks.chunks[j]
           entries == [r \in 1..Len(c.rows) |-> call.ser.vals[c.rows[r]]]
       IN /\ <<0>> \in Range(entries)
          /\ Missing \notin Range(entries)
          /\ c.bar.color = Named("white")

\* C5 as stated: the completion of a chunk is the number of its entries equal
\* to 1 divided by the number of its rows, and a chunk with any entry 0 gets
\* a non-white red.
C5_CompletionCountsOnes ==
  Ended("spark_missing_heatmap") =>
    \A j \in 1..Len(chart.marks.chunks) :
      LET c == chart.marks.chunks[j]
          entries == [r \in 1..Len(c.rows) |-> call.ser.vals[c.rows[r]]]
      IN /\ FEq(c.completion, Flt(Len(SelectSeq(entries, LAMBDA e : e = <<1>>)), Len(c.rows)))
         /\ c.bar.color = Named("white") <=> FEq(c.completion, One)
         /\ <<0>> \in Range(entries) => c.bar.color.name = "Reds"

\* floor(log10(|n|) / 3) in exact arithmetic, clamped to [0, 8].
ExactTier(n) == IF IsZero(n) THEN 0 ELSE Max(0, Min(8, (Len(n.digits) - 1) \div 3))

\* C6: millify(n, precision) over integers: the tier is 0 for n = 0 and
\* otherwise floor(log10(|n|) / 3) clamped to [0, 8]; the result is
\* n / 1000^tier with `precision` decimals, the sign kept, followed by the
\* tier's suffix; millify(0) = "0", millify(999) = "999",
\* millify(1000) = "1k", millify(1500000, 1) = "1.5M", millify(-2000) = "-2k".
C6_MillifyTierAndFormat ==
  Ended("millify") =>
    LET n == call.n
        p == call.precision
    IN /\ ret.millidx \in 0..8
       /\ ret.millidx = ExactTier(n)
       /\ \E t \in BOOLEAN :
            ret.value = FormatQuotient(n, ExactTier(n), p, t) \o Suffix(ExactTier(n))
       /\ (n = [neg |-> FALSE, digits |-> <<0>>] /\ p = 0) => ret.value = <<"0">>
       /\ (n = [neg |-> FALSE, digits |-> <<9, 9, 9>>] /\ p = 0) => ret.value = <<"9", "9", "9">>
       /\ (n = [neg |-> FALSE, digits |-> <<1, 0, 0, 0>>] /\ p = 0) => ret.value = <<"1", "k">>
       /\ (n = [neg |-> FALSE, digits |-> <<1, 5, 0, 0, 0, 0, 0>>] /\ p = 1)
            => ret.value = <<"1", ".", "5", "M">>
       /\ (n = [neg |-> TRUE, digits |-> <<2, 0, 0, 0>>] /\ p = 0) => ret.value = <<"-", "2", "k">>

\* C7 (as amended): a sparkify call that returns without a caption yields
\* the bare image tag, which starts with the image-data prefix; with a
\* caption it yields a string that starts with the container's opening,
\* holds the caption verbatim as its title, then the image tag, then the
\* container's end.
C7_ReturnedString ==
  (pc = "done" /\ call.fn \notin {"none", "millify"} /\ ~ret.raised) =>
    LET v == ret.value
    IN IF call.caption = NoCaption
         THEN /\ v[1] = ImgOpen
              /\ v[Len(v)] = ImgClose
              /\ \A i \in 1..Len(v) : v[i] \notin {"<div title='", "</div>"}
         ELSE LET k == Len(call.caption[1])
              IN /\ Len(v) >= k + 5
                 /\ v[1] = "<div title='"
                 /\ SubSeq(v, 2, k + 1) = call.caption[1]
                 /\ v[k + 2] = "'>"
                 /\ v[k + 3] = ImgOpen
                 /\ v[Len(v) - 1] = ImgClose
                 /\ v[Len(v)] = "</div>"

\* C7 witness: a captioned call has returned; the string opens with the
\* container, not with the image tag.
C7_Witness ==
  /\ Drawn("spark_donut")
  /\ call.caption = <<<<"'">>>>
  /\ ret.value[1] = "<div title='"
  /\ ret.value[4] = ImgOpen

\* C7 as stated: every sparkify call that returns yields a string starting
\* with the image-data prefix, and with a caption the string holds the
\* caption as the title of a container around the image tag.
C7_StartsWithImagePrefix ==
  (pc = "done" /\ call.fn \notin {"none", "millify"} /\ ~ret.raised) =>
    /\ ret.value[1] = ImgOpen
    /\ call.caption # NoCaption =>
         \E i \in 1..Len(ret.value) :
           /\ ret.value[i] = "<div title='"
           /\ SubSeq(ret.value, i + 1, i + Len(call.caption[1])) = call.caption[1]

\* C8: a reference column is normalized by the steps of the primary column
\* in the same order (missing entries dropped, then category codes, then
\* numeric), so no value of the normalized reference comes from a missing
\* entry.
C8_ReferenceNormalizedLikePrimary ==
  (pc = "done" /\ call.fn \in {"spark_hist", "spark_box"} /\ ~ret.raised
     /\ call.ref_ser # NoRef) =>
    /\ chart.marks.scale = Values(NormalizePrimary(call.ref_ser))
    /\ Len(chart.marks.scale) = Len(NonMissing(call.ref_ser.vals))

\* The number of values of xs within [first edge, last edge].
WithinEdges(xs, edges) ==
  Cardinality({i \in 1..Len(xs) : /\ edges.nums[1] <= xs[i] * edges.den
                                  /\ xs[i] * edges.den <= edges.nums[Len(edges.nums)]})

\* C9 (as amended): the histogram is drawn from the whole normalized primary
\* series, not the outlier-filtered one; a value within [first edge, last
\* edge] is counted in exactly one bin and a value below the first or above
\* the last edge in none, so the counts sum to the number of primary values
\* within the edges.
C9_CountsWithinEdges ==
  Drawn("spark_hist") =>
    LET m == chart.marks
    IN /\ m.data = Values(NormalizePrimary(call.ser))
       /\ Len(m.counts) = NumBins(m.edges)
       /\ SumSeq(m.counts) = WithinEdges(m.data, m.edges)
       /\ \A i \in 1..Len(m.data) :
            Cardinality({j \in 1..NumBins(m.edges) : InBin(m.data[i], m.edges, j)}) <= 1
       /\ \A j \in 1..NumBins(m.edges) :
            m.counts[j] =
              Cardinality({i \in 1..Len(m.data) : InBin(m.data[i], m.edges, j)})

\* C9 witness: a primary value lies above the last edge and is not counted.
C9_Witness ==
  /\ Drawn("spark_hist")
  /\ \E i \in 1..Len(chart.marks.data) :
       chart.marks.data[i] * chart.marks.edges.den
         > chart.marks.edges.nums[Len(chart.marks.edges.nums)]
  /\ SumSeq(chart.marks.counts) < Len(chart.marks.data)

\* C9 as stated: every value of the primary series is counted in some bin,
\* the outliers in the first or last one, so the counts sum to the length of
\* the normalized primary series.
C9_OutliersInExtremeBins ==
  Drawn("spark_hist") => SumSeq(chart.marks.counts) = Len(chart.marks.data)

\* C10 (as amended): missing_bar draws one background and one foreground bar
\* per element, and colours the foreground bar Reds(0.7) exactly when the
\* element's value is 1.0 (the bar's height is the value: a position that is
\* missing in full), Reds(0.1) for every other position.
C10_BarPerElementRedAtOne ==
  Ended("spark_missing_bar") =>
    LET v == call.ser.vals
        m == chart.marks
    IN /\ ~ret.raised
       /\ Len(m.background) = Len(v) /\ Len(m.foreground) = Len(v)
       /\ \A i \in 1..Len(v) :
            /\ m.background[i].x = i - 1 /\ m.foreground[i].x = i - 1
            /\ FEq(m.foreground[i].height, v[i])
            /\ FEq(m.background[i].height, FSub(One, v[i]))
            /\ m.foreground[i].color = Reds(Flt(7, 10)) <=> FEq(v[i], One)
            /\ ~FEq(v[i], One) => m.foreground[i].color = Reds(Flt(1, 10))

\* C10 witness: a position of value 1 is drawn in full red, one of value 0
\* in the low red.
C10_Witness ==
  /\ Drawn("spark_missing_bar")
  /\ \E i, j \in 1..Len(call.ser.vals) :
       /\ FEq(call.ser.vals[i], One) /\ chart.marks.foreground[i].color = Reds(Flt(7, 10))
       /\ FEq(call.ser.vals[j], Zero) /\ chart.marks.foreground[j].color = Reds(Flt(1, 10))

\* C10 as stated: the foreground bar is full red exactly where the presence
\* is 0, low red elsewhere.
C10_RedAtPresenceZero ==
  Ended("spark_missing_bar") =>
    \A i \in 1..Len(call.ser.vals) :
      chart.marks.foreground[i].color = Reds(Flt(7, 10)) <=> FEq(call.ser.vals[i], Zero)

====
